---- MODULE Spec2Model ----
(***************************************************************************)
(* Model of Part2/print_knights.py: a script that fills a B x B board,     *)
(* B = 4N+5, cell by cell in row-major order and writes each finished row  *)
(* to standard output.  The script has no inputs besides the literal N;    *)
(* the model draws N from a small range so that the statements made about  *)
(* other values of N (0, negative values) can be examined as well.  Two    *)
(* independent runs of the script with the same N are modelled, so that    *)
(* the output of one run can be compared with the output of the other.     *)
(***************************************************************************)
EXTENDS Integers, Sequences, FiniteSets

MaxNeg == 3
MaxN == 2

NValues == (-MaxNeg)..MaxN
Runs == {1, 2}
None == "None"

VARIABLES N, pc, r, c, row, board, out

vars == <<N, pc, r, c, row, board, out>>

(* Python's floor modulo and floor division; the divisor is never 0 here,  *)
(* the callers raise ZeroDivisionError first.                              *)
PyMod(a, b) == IF b > 0 THEN a % b ELSE -((-a) % (-b))

PyDiv(a, b) == IF b > 0 THEN a \div b ELSE (-a) \div (-b)

(* faulty variant: board extent short by one *)
B_OffByOne == 4 * N + 4

B == 4 * N + 5

(* range(B): empty when B <= 0 *)
Range == 0..(B - 1)

IsSepRow(i) == PyMod(r[i], N + 1) = 0

(* faulty variant: junction columns spaced N+2 apart *)
IsInnerCol_Wide(i) == PyMod(c[i], N + 2) > 0

IsInnerCol(i) == PyMod(c[i], N + 1) > 0

(* faulty variant: vertical borders shifted one column right *)
IsBarCol_Shift(i) == PyMod(c[i], N + 1) = 1

IsBarCol(i) == PyMod(c[i], N + 1) = 0

(* faulty variants of the knight-block test: wrong block column, a single  *)
(* cell instead of a whole block, and the block one row of blocks higher   *)
InKnightBlock_Col(i) == PyDiv(r[i], N + 1) = 3 /\ PyDiv(c[i], N + 1) = 3

InKnightBlock_Cell(i) == r[i] = 3 * (N + 1) + 1 /\ c[i] = 1

InKnightBlock_Row(i) == PyDiv(r[i], N + 1) = 2 /\ PyDiv(c[i], N + 1) = 0

InKnightBlock(i) == PyDiv(r[i], N + 1) = 3 /\ PyDiv(c[i], N + 1) = 0

Init ==
    /\ N \in NValues
    /\ pc = [i \in Runs |-> "for_r"]
    /\ r = [i \in Runs |-> 0]
    /\ c = [i \in Runs |-> 0]
    /\ row = [i \in Runs |-> <<>>]
    /\ board = [i \in Runs |-> [rr \in Range |-> [cc \in Range |-> None]]]
    /\ out = [i \in Runs |-> <<>>]

(* the loop body is entered for cell (r, c) and N+1 is a legal divisor *)
InBody(i) == pc[i] = "for_c" /\ c[i] < B /\ N + 1 # 0

(* board[r][c] = ch; row += ch; then the inner loop advances *)
(* faulty variant: the cell is stored in row 0 whatever the current row *)
Write_Row0(i, ch) ==
    /\ board' = [board EXCEPT ![i][0][c[i]] = ch]
    /\ row' = [row EXCEPT ![i] = Append(row[i], ch)]
    /\ c' = [c EXCEPT ![i] = c[i] + 1]
    /\ UNCHANGED <<N, pc, r, out>>

Write(i, ch) ==
    /\ board' = [board EXCEPT ![i][r[i]][c[i]] = ch]
    /\ row' = [row EXCEPT ![i] = Append(row[i], ch)]
    /\ c' = [c EXCEPT ![i] = c[i] + 1]
    /\ UNCHANGED <<N, pc, r, out>>

(* faulty variant: the line buffer is not cleared at the start of a row *)
StartRow_NoReset(i) ==
    /\ pc[i] = "for_r"
    /\ r[i] < B
    /\ c' = [c EXCEPT ![i] = 0]
    /\ pc' = [pc EXCEPT ![i] = "for_c"]
    /\ UNCHANGED <<N, r, row, board, out>>

StartRow(i) ==
    /\ pc[i] = "for_r"
    /\ r[i] < B
    /\ row' = [row EXCEPT ![i] = <<>>]
    /\ c' = [c EXCEPT ![i] = 0]
    /\ pc' = [pc EXCEPT ![i] = "for_c"]
    /\ UNCHANGED <<N, r, board, out>>

Finish(i) ==
    /\ pc[i] = "for_r"
    /\ r[i] >= B
    /\ pc' = [pc EXCEPT ![i] = "done"]
    /\ UNCHANGED <<N, r, c, row, board, out>>

(* faulty variant: any non-positive divisor is rejected before the loop *)
Fault_Early(i) ==
    /\ pc[i] = "for_r"
    /\ N + 1 <= 0
    /\ pc' = [pc EXCEPT ![i] = "fault"]
    /\ UNCHANGED <<N, r, c, row, board, out>>

Fault(i) ==
    /\ pc[i] = "for_c"
    /\ c[i] < B
    /\ N + 1 = 0
    /\ pc' = [pc EXCEPT ![i] = "fault"]
    /\ UNCHANGED <<N, r, c, row, board, out>>

WriteDash(i) == InBody(i) /\ IsSepRow(i) /\ IsInnerCol(i) /\ Write(i, "-")

WritePlus(i) == InBody(i) /\ IsSepRow(i) /\ ~IsInnerCol(i) /\ Write(i, "+")

WriteBar(i) == InBody(i) /\ ~IsSepRow(i) /\ IsBarCol(i) /\ Write(i, "|")

WriteKnight(i) ==
    InBody(i) /\ ~IsSepRow(i) /\ ~IsBarCol(i) /\ InKnightBlock(i) /\ Write(i, "N")

(* faulty variant: an interior cell takes an arbitrary character *)
WriteBlank_Any(i) ==
    /\ InBody(i) /\ ~IsSepRow(i) /\ ~IsBarCol(i) /\ ~InKnightBlock(i)
    /\ \E ch \in {" ", "N"} : Write(i, ch)

WriteBlank(i) ==
    InBody(i) /\ ~IsSepRow(i) /\ ~IsBarCol(i) /\ ~InKnightBlock(i) /\ Write(i, " ")

EmitRow(i) ==
    /\ pc[i] = "for_c"
    /\ c[i] >= B
    /\ out' = [out EXCEPT ![i] = Append(out[i], row[i])]
    /\ r' = [r EXCEPT ![i] = r[i] + 1]
    /\ pc' = [pc EXCEPT ![i] = "for_r"]
    /\ UNCHANGED <<N, c, row, board>>

Next ==
    \E i \in Runs :
        \/ StartRow(i)
        \/ Finish(i)
        \/ Fault(i)
        \/ WriteDash(i)
        \/ WritePlus(i)
        \/ WriteBar(i)
        \/ WriteKnight(i)
        \/ WriteBlank(i)
        \/ EmitRow(i)

Spec == Init /\ [][Next]_vars

(***************************************************************************)
(* Properties                                                              *)
(***************************************************************************)
Done(i) == pc[i] = "done"

Border == {"+", "-", "|"}

(* coordinates (row, column), 0-based, of the markers in the emitted lines *)
Markers(i) ==
    UNION { { <<k - 1, j - 1>> : j \in {x \in 1..Len(out[i][k]) : out[i][k][x] = "N"} }
            : k \in 1..Len(out[i]) }

(* coordinates of the markers stored in the board *)
BoardMarkers(i) ==
    { p \in Range \X Range : board[i][p[1]][p[2]] = "N" }

(* the per-cell character rule as the specification words it (N >= 0) *)
Rule(rr, cc) ==
    IF rr % (N + 1) = 0
    THEN IF cc % (N + 1) = 0 THEN "+" ELSE "-"
    ELSE IF cc % (N + 1) = 0 THEN "|"
         ELSE IF rr \div (N + 1) = 3 /\ cc \div (N + 1) = 0 THEN "N" ELSE " "

(* cell (rr, cc) has been passed by run i's row-major traversal *)
Passed(i, rr, cc) ==
    \/ rr < r[i]
    \/ rr = r[i] /\ pc[i] \in {"for_c", "fault"} /\ cc < c[i]

(* C1: for every N >= 0 every emitted line has 4N+5 characters, and a      *)
(* completed run has emitted exactly 4N+5 lines (13 lines of 13 for N = 2) *)
C1_Dimensions ==
    N >= 0 =>
        \A i \in Runs :
            /\ \A k \in 1..Len(out[i]) : Len(out[i][k]) = 4 * N + 5
            /\ Done(i) => Len(out[i]) = 4 * N + 5

C1_Witness == \E i \in Runs : Done(i) /\ N = 2 /\ Len(out[i]) = 13 /\ Len(out[i][13]) = 13

(* C2: for every N >= 0 each character of each emitted line is the one the *)
(* per-cell rule gives for its coordinates, and a completed run has        *)
(* emitted the rule's character for every (r, c) in [0,B) x [0,B)          *)
C2_CellRule ==
    N >= 0 =>
        \A i \in Runs :
            /\ \A k \in 1..Len(out[i]) : \A j \in 1..Len(out[i][k]) :
                   out[i][k][j] = Rule(k - 1, j - 1)
            /\ Done(i) =>
                   /\ Len(out[i]) = 4 * N + 5
                   /\ \A rr \in 0..(4 * N + 4) :
                          /\ Len(out[i][rr + 1]) = 4 * N + 5
                          /\ \A cc \in 0..(4 * N + 4) : out[i][rr + 1][cc + 1] = Rule(rr, cc)

C2_Witness ==
    \E i \in Runs : Done(i) /\ N = 2 /\ out[i][11][2] = "N" /\ out[i][2][2] = " "
                    /\ out[i][2][1] = "|" /\ out[i][1][1] = "+" /\ out[i][1][2] = "-"

(* C3 as stated: the complete output of a run with N >= 1 holds exactly    *)
(* one marker, in block-row 3, block-column 0                              *)
C3_OneMarker ==
    \A i \in Runs :
        (Done(i) /\ N >= 1) =>
            /\ Cardinality(Markers(i)) = 1
            /\ \A p \in Markers(i) : p[1] \div (N + 1) = 3 /\ p[2] \div (N + 1) = 0

(* C3 amended: the complete output of a run with N >= 1 holds exactly N*N  *)
(* markers (four for N = 2), all in block-row 3, block-column 0            *)
C3_BlockOfMarkers ==
    \A i \in Runs :
        (Done(i) /\ N >= 1) =>
            /\ Cardinality(Markers(i)) = N * N
            /\ \A p \in Markers(i) : p[1] \div (N + 1) = 3 /\ p[2] \div (N + 1) = 0

C3_Witness == \E i \in Runs : Done(i) /\ N = 2 /\ Cardinality(Markers(i)) = 4

(* C4 as stated: for N = 2 every marker written is in row 12               *)
C4_MarkersInRow12 ==
    N = 2 => \A i \in Runs : \A p \in BoardMarkers(i) : p[1] = 12

(* C4 amended: for N = 2 the rows with r div 3 = 3 are 9, 10 and 11; every *)
(* marker written is in row 10 or 11, and row 12 never holds a marker      *)
C4_MarkersInRows10And11 ==
    N = 2 =>
        /\ {rr \in 0..12 : rr \div (N + 1) = 3} = {9, 10, 11}
        /\ \A i \in Runs :
               /\ \A p \in BoardMarkers(i) : p[1] \in {10, 11}
               /\ \A cc \in Range : board[i][12][cc] # "N"
               /\ Done(i) => {p[1] : p \in BoardMarkers(i)} = {10, 11}

C4_Witness ==
    N = 2 /\ \E i \in Runs : Done(i) /\ board[i][10][1] = "N" /\ board[i][11][2] = "N"
                             /\ board[i][12][1] = "-"

(* C5 as stated: for N = 2 the first emitted line is "+---+---+---+"       *)
C5_Row0FourWide ==
    N = 2 =>
        \A i \in Runs : Len(out[i]) >= 1 =>
            out[i][1] = <<"+", "-", "-", "-", "+", "-", "-", "-", "+", "-", "-", "-", "+">>

(* C5 amended: for N = 2 the first emitted line is "+--+--+--+--+", that   *)
(* is '+' followed by N dashes, four times, and a closing '+'              *)
C5_Row0 ==
    N = 2 =>
        \A i \in Runs : Len(out[i]) >= 1 =>
            out[i][1] = <<"+", "-", "-", "+", "-", "-", "+", "-", "-", "+", "-", "-", "+">>

C5_Witness == N = 2 /\ \E i \in Runs : Len(out[i]) = 1 /\ pc[i] = "for_r"

(* C6: for every N >= 1 every emitted content row (r mod (N+1) # 0) starts *)
(* and ends with '|' and has '|' exactly at the columns c with             *)
(* c mod (N+1) = 0                                                         *)
C6_ContentRowBars ==
    N >= 1 =>
        \A i \in Runs : \A k \in 1..Len(out[i]) :
            (k - 1) % (N + 1) # 0 =>
                /\ Len(out[i][k]) = 4 * N + 5
                /\ out[i][k][1] = "|"
                /\ out[i][k][4 * N + 5] = "|"
                /\ \A j \in 1..Len(out[i][k]) :
                       out[i][k][j] = "|" <=> (j - 1) % (N + 1) = 0

C6_Witness ==
    \E i \in Runs : N >= 1 /\ Len(out[i]) >= 2 /\ out[i][2][1] = "|"
                    /\ out[i][2][N + 2] = "|" /\ out[i][2][2] = " "

(* C7 as stated: a run with N <= -1 never completes normally, and a run    *)
(* with N >= 0 never faults                                                *)
C7_NegativeFaults ==
    \A i \in Runs :
        /\ N <= -1 => pc[i] # "done"
        /\ N >= 0 => pc[i] # "fault"

(* C7 amended: only N = -1 faults: its run raises the division fault at    *)
(* the first cell, before any output, and never completes; for N >= 0 no   *)
(* fault occurs; for N <= -2 the board is empty, the loop body never runs, *)
(* and the run completes normally without output                           *)
C7_OnlyMinusOneFaults ==
    \A i \in Runs :
        /\ pc[i] = "fault" => N = -1
        /\ N = -1 => pc[i] # "done" /\ r[i] = 0 /\ c[i] = 0 /\ out[i] = <<>>
        /\ N <= -2 => pc[i] \in {"for_r", "done"} /\ out[i] = <<>>

C7_Witness == N = -1 /\ pc[1] = "fault" /\ pc[2] = "fault"

(* C8: for N = 0 the run never faults, never writes a blank or a marker,   *)
(* and completes with exactly 5 lines of 5 border characters               *)
C8_ZeroIsAllBorder ==
    N = 0 =>
        \A i \in Runs :
            /\ pc[i] # "fault"
            /\ \A rr \in Range : \A cc \in Range : board[i][rr][cc] \in Border \cup {None}
            /\ \A k \in 1..Len(out[i]) :
                   /\ Len(out[i][k]) = 5
                   /\ \A j \in 1..5 : out[i][k][j] \in Border
            /\ Done(i) => Len(out[i]) = 5

C8_Witness == N = 0 /\ \E i \in Runs : Done(i) /\ Len(out[i]) = 5 /\ out[i][5][5] \in Border

C10_State ==
    \A i \in Runs :
        /\ \A rr \in Range : \A cc \in Range :
               board[i][rr][cc] # None <=> Passed(i, rr, cc)
        /\ Len(out[i]) = r[i]
        /\ \A k \in 1..Len(out[i]) :
               out[i][k] = [j \in 1..B |-> board[i][k - 1][j - 1]]

(* a step changes at most the one unset cell under the cursor, and a step  *)
(* that emits a line emits the current, completely set, board row while    *)
(* every later row is still unset                                          *)
C10_Step ==
    \A i \in Runs :
        /\ \A rr \in Range : \A cc \in Range :
               board'[i][rr][cc] # board[i][rr][cc] =>
                   board[i][rr][cc] = None /\ rr = r[i] /\ cc = c[i]
        /\ out'[i] # out[i] =>
               /\ out'[i] = Append(out[i], [j \in 1..B |-> board[i][r[i]][j - 1]])
               /\ \A cc \in Range : board[i][r[i]][cc] # None
               /\ \A rr \in Range : \A cc \in Range : rr > r[i] => board[i][rr][cc] = None

(* C10: the grid is never mutated after creation: each cell is written at  *)
(* most once, in row-major order, and never changed afterwards; when line  *)
(* r is emitted board row r is completely set and equals the line, and all *)
(* later rows are still unset                                              *)
C10_WriteOnce == [](C10_State) /\ [][C10_Step]_vars

C10_Witness ==
    N = 2 /\ \E i \in Runs : pc[i] = "for_r" /\ r[i] = 11 /\ Len(out[i]) = 11
                             /\ board[i][10][12] = "|" /\ board[i][11][0] = None

TypeOK ==
    /\ N \in NValues
    /\ pc \in [Runs -> {"for_r", "for_c", "done", "fault"}]
    /\ \A i \in Runs : Len(out[i]) <= 4 * MaxN + 5
====
